---- MODULE Spec2Model ----
(***************************************************************************)
(* Model of electron/database/migrate.py: the SQLiteMigrator class (the    *)
(* migration runner and the JSON export/import) and the command            *)
(* dispatcher main().                                                      *)
(*                                                                         *)
(* File names are sequences of character codes, so that sorted() and       *)
(* split('_') are computed as Python computes them.  A migration script is *)
(* a sequence of statements; sqlite3's executescript() runs them one by    *)
(* one in autocommit mode unless the script opens a transaction itself.    *)
(***************************************************************************)
EXTENDS Integers, Sequences, FiniteSets, TLC

VARIABLES
    files,          \* the migrations directory: file name -> script
    db,             \* the database file
    conn,           \* self.conn of the running process: "none", "open", "closed"
    foreign_keys,   \* PRAGMA foreign_keys of the connection
    pc,             \* position of main()
    args,           \* the parsed command line
    exitCode,       \* exit status of the last process
    runs,           \* number of run_migrations calls so far
    lastRun,        \* record of the last run_migrations call
    prevRun,        \* record of the call before it
    appliedUnits,   \* files whose script has run to its end and been committed
    exportFile,     \* the document written by the last export_data
    exportedFrom,   \* the database that export_data read
    lastImport,     \* record of the last import_data call
    backupFile,     \* the backup copy: <<>> or <<database>>
    invocations,    \* number of processes started so far
    opOutcome       \* the operation main() called last and how it ended

vars == <<files, db, conn, foreign_keys, pc, args, exitCode, runs, lastRun, prevRun,
          appliedUnits, exportFile, exportedFrom, lastImport, backupFile, invocations,
          opOutcome>>

\* ------------------------------------------------------------------ bounds
MaxRuns == 2

MaxDocRows == 2

MaxInvocations == 3

\* ------------------------------------------------------- file names, order
\* '_' : the separator of migration_file.split('_')
Sep == 95

\* ".sql"
SqlSuffix == <<46, 115, 113, 108>>

\* "001_a.sql", "002_b.sql", "010_c.sql", "001_a.txt"
F001a == <<48, 48, 49, 95, 97, 46, 115, 113, 108>>

F002b == <<48, 48, 50, 95, 98, 46, 115, 113, 108>>

F010c == <<48, 49, 48, 95, 99, 46, 115, 113, 108>>

FNotes == <<48, 48, 49, 95, 97, 46, 116, 120, 116>>

\* "001_d.sql": a second file with the version token of F001a
F001d == <<48, 48, 49, 95, 100, 46, 115, 113, 108>>

SqlFileNames == {F001a, F002b, F010c}

FileNames == SqlFileNames \cup {FNotes}

\* f.endswith('.sql')
EndsWithSql(f) ==
    /\ Len(f) >= Len(SqlSuffix)
    /\ SubSeq(f, Len(f) - Len(SqlSuffix) + 1, Len(f)) = SqlSuffix

\* Python's str "<": lexicographic on code points, a proper prefix is smaller
RECURSIVE StrLess(_, _)
StrLess(a, b) ==
    IF b = <<>> THEN FALSE
    ELSE IF a = <<>> THEN TRUE
    ELSE IF Head(a) < Head(b) THEN TRUE
    ELSE IF Head(a) > Head(b) THEN FALSE
    ELSE StrLess(Tail(a), Tail(b))

\* insert x into the ascending sequence s
RECURSIVE InsertSorted(_, _)
InsertSorted(x, s) ==
    IF s = <<>> THEN <<x>>
    ELSE IF StrLess(x, Head(s)) THEN <<x>> \o s
    ELSE <<Head(s)>> \o InsertSorted(x, Tail(s))

\* a runner that takes the files in listing order
Unsorted(s) == s

\* sorted(list)
RECURSIVE Sorted(_)
Sorted(s) ==
    IF s = <<>> THEN <<>> ELSE InsertSorted(Head(s), Sorted(Tail(s)))

\* [f for f in listing if f.endswith('.sql')]
RECURSIVE FilterSql(_)
FilterSql(s) ==
    IF s = <<>> THEN <<>>
    ELSE IF EndsWithSql(Head(s)) THEN <<Head(s)>> \o FilterSql(Tail(s))
    ELSE FilterSql(Tail(s))

\* migration_files of run_migrations, from one directory listing
MigrationFiles(listing) == Sorted(FilterSql(listing))

\* migration_file.split('_')[0]
RECURSIVE Version(_)
Version(f) ==
    IF f = <<>> THEN <<>>
    ELSE IF Head(f) = Sep THEN <<>>
    ELSE <<Head(f)>> \o Version(Tail(f))

\* os.listdir: the directory's entries in any order
Listings(S) ==
    {s \in [1..Cardinality(S) -> S] : \A i, j \in 1..Cardinality(S) : i # j => s[i] # s[j]}

\* ---------------------------------------------------------------- scripts
\* statements of a migration script:
\*   "ddl"    a schema/data change of the unit
\*   "ledger" CREATE TABLE IF NOT EXISTS migrations; INSERT INTO migrations
\*   "fail"   a statement that raises
\*   "begin" / "commit"  explicit transaction control
Bodies ==
    { <<"ddl", "ledger">>,
      <<"ddl">>,
      <<"ddl", "ledger", "fail">>,
      <<"begin", "ddl", "fail", "ledger", "commit">> }

\* --------------------------------------------------------------- database
\* a value of a column or of a document: kind and payload (character codes)
Null == [kind |-> "null", val |-> <<>>]

Int1 == [kind |-> "int", val |-> <<49>>]

Int2 == [kind |-> "int", val |-> <<50>>]

TextA == [kind |-> "text", val |-> <<97>>]

BlobA == [kind |-> "blob", val |-> <<97>>]

\* a JSON array: a value sqlite3 cannot bind
ListV == [kind |-> "list", val |-> <<>>]

Text(s) == [kind |-> "text", val |-> s]

TableNames == {"items", "stock", "migrations"}

\* the columns PRAGMA table_info reports for an existing table
Columns(t) ==
    CASE t = "items" -> {"id", "v"}
      [] t = "stock" -> {"id", "item"}
      [] t = "migrations" -> {"version", "name"}
      [] OTHER -> {}

\* the primary key column of a table
PrimaryKey(t) == IF t = "migrations" THEN "version" ELSE "id"

NoRows == [t \in TableNames |-> {}]

\* a database file that has just been created by sqlite3.connect
EmptyDb == [tables |-> {}, rows |-> NoRows, changes |-> {}]

\* the versions of SELECT version FROM migrations
LedgerOf(d) == {r["version"].val : r \in d.rows["migrations"]}

LedgerRow(f) == [version |-> Text(Version(f)), name |-> Text(f)]

\* a connection: its view (cur), the durable file (dur), an open transaction
Conn(d) == [cur |-> d, dur |-> d, inTxn |-> FALSE]

\* a write through the connection: durable at once unless a transaction is open
Write(st, d) == [cur |-> d, dur |-> IF st.inTxn THEN st.dur ELSE d, inTxn |-> st.inTxn]

\* conn.commit()
Commit(st) == [cur |-> st.cur, dur |-> st.cur, inTxn |-> FALSE]

\* conn.rollback()
Rollback(st) == [cur |-> st.dur, dur |-> st.dur, inTxn |-> FALSE]

\* one statement of the script of file f, at position i: the new connection
\* state and whether the statement succeeded
ExecStatement(st, stmt, f, i) ==
    CASE stmt = "ddl" ->
           [st |-> Write(st, [st.cur EXCEPT !.changes = @ \cup {<<f, i>>}]), ok |-> TRUE]
      [] stmt = "ledger" ->
           LET made == Write(st, [st.cur EXCEPT !.tables = @ \cup {"migrations"}])
           IN IF Version(f) \in LedgerOf(made.cur)
              THEN [st |-> made, ok |-> FALSE]
              ELSE [st |-> Write(made, [made.cur EXCEPT !.rows["migrations"] = @ \cup {LedgerRow(f)}]),
                    ok |-> TRUE]
      [] stmt = "begin" ->
           IF st.inTxn THEN [st |-> st, ok |-> FALSE]
           ELSE [st |-> [st EXCEPT !.inTxn = TRUE], ok |-> TRUE]
      [] stmt = "commit" ->
           IF st.inTxn THEN [st |-> Commit(st), ok |-> TRUE]
           ELSE [st |-> st, ok |-> FALSE]
      [] OTHER -> [st |-> st, ok |-> FALSE]

\* the statements of body from position i on, stopping at the first that raises
RECURSIVE RunStatements(_, _, _, _)
RunStatements(st, body, f, i) ==
    IF i > Len(body) THEN [st |-> st, ok |-> TRUE]
    ELSE LET r == ExecStatement(st, body[i], f, i)
         IN IF r.ok THEN RunStatements(r.st, body, f, i + 1) ELSE r

\* conn.executescript(sql): commits a pending transaction, then runs the
\* statements with no transaction control of its own
ExecuteScript(st, body, f) ==
    RunStatements(IF st.inTxn THEN Commit(st) ELSE st, body, f, 1)

\* a lookup that takes a missing ledger table for a ledger of every version
GetAppliedMigrationsAll(st) ==
    IF "migrations" \in st.cur.tables THEN LedgerOf(st.cur)
    ELSE {Version(f) : f \in SqlFileNames}

\* get_applied_migrations
GetAppliedMigrations(st) ==
    IF "migrations" \in st.cur.tables THEN LedgerOf(st.cur) ELSE {}

\* a runner that takes the ledger to be contiguous: skips up to the newest version
IsAppliedContiguous(f, applied) == \E v \in applied : ~StrLess(v, Version(f))

\* should run_migrations skip the file
IsApplied(f, applied) == Version(f) \in applied

\* a loop that goes on with the next file after a failure
RECURSIVE RunLoopContinue(_, _, _, _, _)
RunLoopContinue(st, units, dir, applied, executed) ==
    IF units = <<>>
    THEN [st |-> st, executed |-> executed, result |-> TRUE, failed |-> <<>>,
          dbBeforeFailed |-> st.dur, whileLedgered |-> {}]
    ELSE LET f == Head(units)
         IN IF Version(f) \in applied
            THEN RunLoopContinue(st, Tail(units), dir, applied, executed)
            ELSE LET r == ExecuteScript(st, dir[f], f)
                     hit == IF Version(f) \in GetAppliedMigrations(st) THEN {f} ELSE {}
                     rest == RunLoopContinue(IF r.ok THEN Commit(r.st) ELSE Rollback(r.st),
                                             Tail(units), dir, applied, Append(executed, f))
                 IN IF r.ok THEN [rest EXCEPT !.whileLedgered = @ \cup hit]
                    ELSE [rest EXCEPT !.result = FALSE, !.failed = <<f>>,
                                      !.dbBeforeFailed = st.dur,
                                      !.whileLedgered = @ \cup hit]

\* the for loop of run_migrations over the remaining files
RECURSIVE RunLoop(_, _, _, _, _)
RunLoop(st, units, dir, applied, executed) ==
    IF units = <<>>
    THEN [st |-> st, executed |-> executed, result |-> TRUE, failed |-> <<>>,
          dbBeforeFailed |-> st.dur, whileLedgered |-> {}]
    ELSE LET f == Head(units)
         IN IF IsApplied(f, applied)
            THEN RunLoop(st, Tail(units), dir, applied, executed)
            ELSE LET r == ExecuteScript(st, dir[f], f)
                     \* for the record: was f's version in the ledger when f was executed
                     hit == IF Version(f) \in GetAppliedMigrations(st) THEN {f} ELSE {}
                 IN IF r.ok
                    THEN [RunLoop(Commit(r.st), Tail(units), dir, applied, Append(executed, f))
                             EXCEPT !.whileLedgered = @ \cup hit]
                    ELSE [st |-> Rollback(r.st), executed |-> Append(executed, f),
                          result |-> FALSE, failed |-> <<f>>, dbBeforeFailed |-> st.dur,
                          whileLedgered |-> hit]

\* a runner that reports success when it finds no migration file
RunMigrationsOnEmptyOk(st, dir, listing) ==
    RunLoop(st, MigrationFiles(listing), dir, GetAppliedMigrations(st), <<>>)

\* run_migrations on the connection st, the directory dir listed as listing
RunMigrationsOn(st, dir, listing) ==
    LET units == MigrationFiles(listing)
    IN IF units = <<>>
       THEN [st |-> st, executed |-> <<>>, result |-> FALSE, failed |-> <<>>,
             dbBeforeFailed |-> st.dur, whileLedgered |-> {}]
       ELSE RunLoop(st, units, dir, GetAppliedMigrations(st), <<>>)

\* did os.listdir happen to return the names in ascending order
IsAscending(listing) ==
    \A i, j \in DOMAIN listing : i < j => StrLess(listing[i], listing[j])

\* the record kept of a call of run_migrations
RunRecord(n, d, dir, listing, r) ==
    [n |-> n, dbStart |-> d, files |-> dir, listedInOrder |-> IsAscending(listing),
     applied |-> GetAppliedMigrations(Conn(d)),
     executed |-> r.executed, result |-> r.result, failed |-> r.failed,
     dbBeforeFailed |-> r.dbBeforeFailed, whileLedgered |-> r.whileLedgered]

NoRun ==
    [n |-> 0, dbStart |-> EmptyDb, files |-> [f \in {} |-> <<>>], listedInOrder |-> TRUE, applied |-> {},
     executed |-> <<>>, result |-> FALSE, failed |-> <<>>, dbBeforeFailed |-> EmptyDb,
     whileLedgered |-> {}]

\* ------------------------------------------------------------ export_data
\* json.dump(..., default=str) followed by json.load: bytes come back as the
\* text of their repr, b'...'; None, numbers and text come back as they were
JsonValue(v) ==
    IF v.kind = "blob" THEN Text(<<98, 39>> \o v.val \o <<39>>) ELSE v

\* dict(row) as it is written to the document
JsonRow(r) == [c \in DOMAIN r |-> JsonValue(r[c])]

\* the sequences that list the elements of S once each
Orderings(S) ==
    {s \in [1..Cardinality(S) -> S] : \A i, j \in 1..Cardinality(S) : i # j => s[i] # s[j]}

\* the documents export_data can write for database d: the tables in catalog
\* order, the rows of each table in the order the engine returns them
ExportDocs(d) ==
    {[wellFormed |-> TRUE,
      entries |-> [k \in 1..Len(tabs) |-> [table |-> tabs[k], rows |-> rowsOf[tabs[k]]]]] :
        tabs \in Orderings(d.tables),
        rowsOf \in {g \in [TableNames -> UNION {Orderings({JsonRow(r) : r \in d.rows[t]}) : t \in TableNames}] :
                        \A t \in TableNames : g[t] \in Orderings({JsonRow(r) : r \in d.rows[t]})}}

\* ------------------------------------------------------------ import_data
\* an import that writes every key of the row
FilterRowAll(row, columns) == row

\* {k: v for k, v in row_data.items() if k in columns}
FilterRow(row, columns) == [k \in (DOMAIN row) \cap columns |-> row[k]]

\* should the filtered row be written
ShouldWrite(filtered) == DOMAIN filtered # {}

\* the row INSERT OR REPLACE stores: columns that are not given are NULL
StoredRow(t, filtered) ==
    [c \in Columns(t) |-> IF c \in DOMAIN filtered THEN filtered[c] ELSE Null]

\* does conn.execute(sql, values) raise: a value that cannot be bound, or a
\* NULL primary key (the key columns are NOT NULL)
WriteRaises(t, filtered) ==
    \/ \E k \in DOMAIN filtered : filtered[k].kind = "list"
    \/ StoredRow(t, filtered)[PrimaryKey(t)] = Null

\* INSERT OR REPLACE INTO t: the row with the same key is replaced
Upsert(d, t, filtered) ==
    LET new == StoredRow(t, filtered)
    IN [d EXCEPT !.rows[t] =
            {r \in @ : r[PrimaryKey(t)] # new[PrimaryKey(t)]} \cup {new}]

\* PRAGMA foreign_keys = v on a connection: a no-op inside a transaction
SetForeignKeys(imp, v) ==
    [imp EXCEPT !.fk = IF imp.st.inTxn THEN @ ELSE v,
                !.events = Append(@, IF v THEN "fk_on" ELSE "fk_off")]

\* the implicit BEGIN sqlite3 issues before an INSERT
BeginImplicit(st) == [st EXCEPT !.inTxn = TRUE]

\* document keys that are no plain SQL identifier: the text of
\* f"PRAGMA table_info({table_name})" is then no statement and execute raises
NonIdentifierKeys == {"a b"}

TableInfoRaises(t) == t \in NonIdentifierKeys

\* the rows of one table of the document, from row i on
RECURSIVE ImportRows(_, _, _, _, _)
ImportRows(imp, t, columns, rows, i) ==
    IF i > Len(rows) THEN imp
    ELSE LET filtered == FilterRow(rows[i], columns)
         IN IF ~ShouldWrite(filtered) THEN ImportRows(imp, t, columns, rows, i + 1)
            ELSE IF WriteRaises(t, filtered)
            THEN [imp EXCEPT !.ok = FALSE, !.st = BeginImplicit(@)]
            ELSE ImportRows(
                   [imp EXCEPT !.st = Write(BeginImplicit(@), Upsert(imp.st.cur, t, filtered)),
                               !.writes = Append(@, [table |-> t, data |-> filtered]),
                               !.events = Append(@, "write")],
                   t, columns, rows, i + 1)

\* an import that returns after the first table that has rows
RECURSIVE ImportTablesFirstOnly(_, _, _)
ImportTablesFirstOnly(imp, entries, k) ==
    IF k > Len(entries) THEN imp
    ELSE IF entries[k].rows = <<>> THEN ImportTablesFirstOnly(imp, entries, k + 1)
    ELSE IF TableInfoRaises(entries[k].table) THEN [imp EXCEPT !.ok = FALSE]
    ELSE LET t == entries[k].table
             columns == IF t \in imp.st.cur.tables THEN Columns(t) ELSE {}
         IN ImportRows(imp, t, columns, entries[k].rows, 1)

\* the tables of the document, from entry k on
RECURSIVE ImportTables(_, _, _)
ImportTables(imp, entries, k) ==
    IF k > Len(entries) THEN imp
    ELSE IF entries[k].rows = <<>> THEN ImportTables(imp, entries, k + 1)
    ELSE IF TableInfoRaises(entries[k].table) THEN [imp EXCEPT !.ok = FALSE]
    ELSE LET t == entries[k].table
             columns == IF t \in imp.st.cur.tables THEN Columns(t) ELSE {}
             r == ImportRows(imp, t, columns, entries[k].rows, 1)
         IN IF r.ok THEN ImportTables(r, entries, k + 1) ELSE r

\* an except block that commits what was written
FinishImportCommits(imp) ==
    IF imp.ok
    THEN LET on == SetForeignKeys(imp, TRUE)
         IN [on EXCEPT !.st = Commit(@), !.events = Append(@, "commit")]
    ELSE [imp EXCEPT !.st = Commit(@), !.events = Append(@, "rollback")]

\* what import_data does at the end of its try block, or in its except block
FinishImport(imp) ==
    IF imp.ok
    THEN LET on == SetForeignKeys(imp, TRUE)
         IN [on EXCEPT !.st = Commit(@), !.events = Append(@, "commit")]
    ELSE [imp EXCEPT !.st = Rollback(@), !.events = Append(@, "rollback")]

\* import_data on the connection st with foreign-key enforcement fk
ImportDataOn(st, fk, doc) ==
    LET start == [st |-> st, fk |-> fk, ok |-> TRUE, writes |-> <<>>, events |-> <<>>]
    IN IF ~doc.wellFormed THEN FinishImport([start EXCEPT !.ok = FALSE])
       ELSE FinishImport(ImportTables(SetForeignKeys(start, FALSE), doc.entries, 1))

\* ------------------------------------------------------------ the records
NoDoc == [wellFormed |-> FALSE, entries |-> <<>>]

NoImport ==
    [n |-> 0, doc |-> NoDoc, dbStart |-> EmptyDb, result |-> FALSE, writes |-> <<>>,
     events |-> <<>>, fkStart |-> TRUE]

\* no operation called yet
NoOutcome == [op |-> "none", outcome |-> "none"]

\* the operation returned a value to its caller
Returned(op) == [op |-> op, outcome |-> "returned"]

\* an exception left the operation
Raised(op) == [op |-> op, outcome |-> "raised"]

NoArgs == [action |-> "none", backup_path |-> FALSE, export_path |-> FALSE, import_path |-> FALSE]

\* the files of seq, as a set
Range(seq) == {seq[i] : i \in DOMAIN seq}

\* the directories the runner may find: any of the files, each with any script
Directories ==
    UNION {{d \in [S -> Bodies] : FNotes \in S => d[FNotes] = <<"ddl">>} : S \in SUBSET FileNames}

\* --------------------------------------------------- migration runner steps
\* the state change of one call of run_migrations, the directory listed as listing
DoRunMigrations(listing) ==
    \E r \in {RunMigrationsOn(Conn(db), files, listing)} :
       /\ db' = r.st.dur
       /\ runs' = runs + 1
       /\ lastRun' = RunRecord(runs + 1, db, files, listing, r)
       /\ prevRun' = lastRun
       /\ appliedUnits' = appliedUnits \cup (Range(r.executed) \ Range(r.failed))

\* run_migrations, called on the open connection
RunMigrations ==
    /\ conn = "open"
    /\ runs < MaxRuns
    /\ \E listing \in Listings(DOMAIN files) : DoRunMigrations(listing)
    /\ UNCHANGED <<files, conn, foreign_keys, pc, args, exitCode, exportFile,
                   exportedFrom, lastImport, backupFile, invocations, opOutcome>>

\* a new migration file appears in the migrations directory between two runs
AddMigrationFile ==
    /\ runs < MaxRuns
    /\ \E f \in FileNames \ DOMAIN files, body \in Bodies :
          /\ f = FNotes => body = <<"ddl">>
          /\ files' = [g \in DOMAIN files \cup {f} |-> IF g = f THEN body ELSE files[g]]
    /\ UNCHANGED <<db, conn, foreign_keys, pc, args, exitCode, runs, lastRun, prevRun,
                   appliedUnits, exportFile, exportedFrom, lastImport, backupFile, invocations, opOutcome>>

\* the script without its failing statements
FixedBody(body) == SelectSeq(body, LAMBDA stmt : stmt # "fail")

\* the author repairs the script at which the last run failed
FixMigrationScript ==
    /\ runs < MaxRuns
    /\ lastRun.failed # <<>>
    /\ lastRun.failed[1] \in DOMAIN files
    /\ FixedBody(files[lastRun.failed[1]]) # files[lastRun.failed[1]]
    /\ files' = [files EXCEPT ![lastRun.failed[1]] = FixedBody(@)]
    /\ UNCHANGED <<db, conn, foreign_keys, pc, args, exitCode, runs, lastRun, prevRun,
                   appliedUnits, exportFile, exportedFrom, lastImport, backupFile, invocations,
                   opOutcome>>

\* a process that has connected to a database file that was just created
Init ==
    /\ files \in Directories
    /\ db = EmptyDb
    /\ conn = "open"
    /\ foreign_keys = TRUE
    /\ pc = "dispatch"
    /\ args = NoArgs
    /\ exitCode = 0
    /\ runs = 0
    /\ lastRun = NoRun
    /\ prevRun = NoRun
    /\ appliedUnits = {}
    /\ exportFile = NoDoc
    /\ exportedFrom = EmptyDb
    /\ lastImport = NoImport
    /\ backupFile = <<>>
    /\ invocations = 0
    /\ opOutcome = NoOutcome

Next == RunMigrations \/ AddMigrationFile \/ FixMigrationScript

Spec == Init /\ [][Next]_vars

\* migration directories in which two files may share one version token
SharedDirectories ==
    UNION {[S -> Bodies] : S \in SUBSET {F001a, F001d, F002b}}

SharedInit ==
    /\ files \in SharedDirectories
    /\ db = EmptyDb
    /\ conn = "open"
    /\ foreign_keys = TRUE
    /\ pc = "dispatch"
    /\ args = NoArgs
    /\ exitCode = 0
    /\ runs = 0
    /\ lastRun = NoRun
    /\ prevRun = NoRun
    /\ appliedUnits = {}
    /\ exportFile = NoDoc
    /\ exportedFrom = EmptyDb
    /\ lastImport = NoImport
    /\ backupFile = <<>>
    /\ invocations = 0
    /\ opOutcome = NoOutcome

SharedNext == RunMigrations

SpecShared == SharedInit /\ [][SharedNext]_vars


\* ------------------------------------------------------ data porter steps
\* rows of import documents: a full row, a row with a column the table no
\* longer has, a row with no current column, a row with a value that cannot
\* be bound, a row without its key
DocRows ==
    { [id |-> Int1, v |-> TextA],
      [id |-> Int2, v |-> TextA, old |-> TextA],
      [old |-> TextA],
      [id |-> Int1, v |-> ListV],
      [v |-> TextA] }

\* table keys of import documents; "ghost" is no table of the database
DocTables == {"items", "stock", "ghost"}

RowSeqs(n) == UNION {[1..k -> DocRows] : k \in 0..n}

Doc(entries) == [wellFormed |-> TRUE, entries |-> entries]

\* hand-written import documents: up to two tables, up to MaxDocRows rows
HandDocs ==
    {NoDoc, Doc(<<>>)}
    \cup {Doc(<<[table |-> t, rows |-> r]>>) : t \in DocTables, r \in RowSeqs(MaxDocRows)}
    \cup UNION {{Doc(<<[table |-> tt[1], rows |-> r1], [table |-> tt[2], rows |-> r2]>>) :
                    r2 \in RowSeqs(MaxDocRows - Len(r1))} :
                 tt \in {p \in DocTables \X DocTables : p[1] # p[2]},
                 r1 \in RowSeqs(MaxDocRows)}

\* documents that hold rows of the ledger table
LedgerDocs ==
    {Doc(<<[table |-> "migrations", rows |-> <<[version |-> Text(Version(f)), name |-> TextA]>>]>>) :
        f \in {F001a, F002b}}

\* documents with a key that is no plain identifier
OddKeyDocs ==
    {Doc(<<[table |-> "a b", rows |-> <<[id |-> Int1, v |-> TextA]>>]>>),
     Doc(<<[table |-> "items", rows |-> <<[id |-> Int1, v |-> TextA]>>],
           [table |-> "a b", rows |-> <<[id |-> Int1, v |-> TextA]>>]>>)}

\* the databases the porter may find: migrated, with some rows
PorterDbs ==
    {[tables |-> TableNames,
      rows |-> [t \in TableNames |->
                  CASE t = "items" -> its
                    [] t = "stock" -> sts
                    [] OTHER -> {LedgerRow(F001a)}],
      changes |-> {<<F001a, 1>>}] :
        its \in SUBSET {[id |-> Int1, v |-> TextA], [id |-> Int2, v |-> BlobA]},
        sts \in SUBSET {[id |-> Int1, item |-> Int1]}}

\* export_data; the file cannot always be written
ExportData ==
    /\ conn = "open"
    /\ lastImport.n = 0
    /\ \E doc \in ExportDocs(db), written \in BOOLEAN :
          /\ exportFile' = IF written THEN doc ELSE exportFile
          /\ exportedFrom' = IF written THEN db ELSE exportedFrom
    /\ UNCHANGED <<files, db, conn, foreign_keys, pc, args, exitCode, runs, lastRun,
                   prevRun, appliedUnits, lastImport, backupFile, invocations, opOutcome>>

\* the tool is pointed at another database file: migrated alike, no rows yet
FreshDatabase ==
    /\ conn = "open"
    /\ lastImport.n = 0
    /\ exportFile # NoDoc
    /\ db' = [db EXCEPT !.rows = [t \in TableNames |-> IF t = "migrations" THEN db.rows[t] ELSE {}]]
    /\ UNCHANGED <<files, conn, foreign_keys, pc, args, exitCode, runs, lastRun, prevRun,
                   appliedUnits, exportFile, exportedFrom, lastImport, backupFile, invocations, opOutcome>>

\* the state change of one call of import_data
DoImportData(doc) ==
    \E r \in {ImportDataOn(Conn(db), foreign_keys, doc)} :
       /\ db' = r.st.dur
       /\ foreign_keys' = r.fk
       /\ lastImport' = [n |-> lastImport.n + 1, doc |-> doc, dbStart |-> db,
                         result |-> r.ok, writes |-> r.writes, events |-> r.events,
                         fkStart |-> foreign_keys]

\* import_data of the exported file or of a hand-written document
ImportData ==
    /\ conn = "open"
    /\ lastImport.n = 0
    /\ \E doc \in HandDocs \cup LedgerDocs \cup OddKeyDocs \cup {exportFile} : DoImportData(doc)
    /\ UNCHANGED <<files, conn, pc, args, exitCode, runs, lastRun, prevRun,
                   appliedUnits, exportFile, exportedFrom, backupFile, invocations, opOutcome>>

PorterInit ==
    /\ files = [f \in {F001a} |-> <<"ddl", "ledger">>]
    /\ db \in PorterDbs
    /\ conn = "open"
    /\ foreign_keys = TRUE
    /\ pc = "dispatch"
    /\ args = NoArgs
    /\ exitCode = 0
    /\ runs = 0
    /\ lastRun = NoRun
    /\ prevRun = NoRun
    /\ appliedUnits = {F001a}
    /\ exportFile = NoDoc
    /\ exportedFrom = EmptyDb
    /\ lastImport = NoImport
    /\ backupFile = <<>>
    /\ invocations = 0
    /\ opOutcome = NoOutcome

PorterNext == ExportData \/ FreshDatabase \/ ImportData

SpecPorter == PorterInit /\ [][PorterNext]_vars

\* ------------------------------------------------------------------ main()
Actions == {"create", "migrate", "backup", "restore", "export", "import", "info"}

\* the documents an --import-path can name in a run of the dispatcher
MainDocs ==
    {NoDoc,
     Doc(<<[table |-> "items", rows |-> <<[id |-> Int1, v |-> TextA]>>]>>),
     Doc(<<[table |-> "items", rows |-> <<[id |-> Int1, v |-> ListV]>>]>>)}

\* the migrations directories of the dispatcher runs
MainDirectories ==
    {[f \in {} |-> <<>>],
     [f \in {F001a} |-> <<"ddl", "ledger">>],
     [f \in {F001a, F002b} |-> IF f = F001a THEN <<"ddl", "ledger">> ELSE <<"ddl", "ledger", "fail">>]}

\* parse_args and SQLiteMigrator(args.db_path): a process starts
MainStart ==
    /\ pc = "idle"
    /\ invocations < MaxInvocations
    /\ \E a \in Actions, bp, ep, ip \in BOOLEAN :
          args' = [action |-> a, backup_path |-> bp, export_path |-> ep, import_path |-> ip]
    /\ conn' = "none"
    /\ exitCode' = 0
    /\ pc' = "connect"
    /\ invocations' = invocations + 1
    /\ UNCHANGED <<files, db, foreign_keys, runs, lastRun, prevRun, appliedUnits,
                   exportFile, exportedFrom, lastImport, backupFile, opOutcome>>

\* migrator.connect(): sqlite3.connect or the PRAGMA may raise, then sys.exit(1)
MainConnect ==
    /\ pc = "connect"
    /\ \E outcome \in {"ok", "connect_raises", "pragma_raises"} :
          /\ conn' = IF outcome = "connect_raises" THEN "none" ELSE "open"
          /\ foreign_keys' = (outcome = "ok")
          /\ pc' = IF outcome = "ok" THEN "dispatch" ELSE "finally"
          /\ exitCode' = IF outcome = "ok" THEN 0 ELSE 1
    /\ UNCHANGED <<files, db, args, runs, lastRun, prevRun, appliedUnits, exportFile,
                   exportedFrom, lastImport, backupFile, invocations, opOutcome>>

\* the branch of create and of migrate: run_migrations, where os.listdir or the
\* ledger query may raise outside any try; create_database catches, migrate does not
DispatchMigrate ==
    /\ pc = "dispatch"
    /\ args.action \in {"create", "migrate"}
    /\ \E outcome \in {"run", "listdir_raises", "ledger_query_raises"} :
          /\ outcome = "ledger_query_raises" => \E f \in DOMAIN files : EndsWithSql(f)
          /\ IF outcome = "run"
             THEN /\ \E listing \in Listings(DOMAIN files) : DoRunMigrations(listing)
                  /\ UNCHANGED exitCode
                  /\ opOutcome' = Returned(IF args.action = "create" THEN "create_database"
                                           ELSE "run_migrations")
             ELSE /\ UNCHANGED <<db, runs, lastRun, prevRun, appliedUnits>>
                  /\ exitCode' = IF args.action = "create" THEN 0 ELSE 1
                  /\ opOutcome' = IF args.action = "create" THEN Returned("create_database")
                                  ELSE Raised("run_migrations")
    /\ pc' = "finally"
    /\ UNCHANGED <<files, conn, foreign_keys, args, exportFile, exportedFrom, lastImport,
                   backupFile, invocations>>

\* the branch of backup: backup_database copies the database file
DispatchBackup ==
    /\ pc = "dispatch"
    /\ args.action = "backup"
    /\ \E copied \in BOOLEAN : backupFile' = IF copied THEN <<db>> ELSE backupFile
    /\ opOutcome' = Returned("backup_database")
    /\ pc' = "finally"
    /\ UNCHANGED <<files, db, conn, foreign_keys, args, exitCode, runs, lastRun, prevRun,
                   appliedUnits, exportFile, exportedFrom, lastImport, invocations>>

\* a dispatcher that restores without looking at the backup path option
DispatchRestoreUnchecked ==
    /\ pc = "dispatch"
    /\ args.action = "restore"
    /\ db' = IF backupFile # <<>> THEN backupFile[1] ELSE db
    /\ opOutcome' = Returned("restore_database")
    /\ pc' = "finally"
    /\ UNCHANGED <<files, conn, foreign_keys, args, exitCode, runs, lastRun, prevRun,
                   appliedUnits, exportFile, exportedFrom, lastImport, backupFile, invocations>>

\* the branch of restore: sys.exit(1) without a backup path, else restore_database
DispatchRestore ==
    /\ pc = "dispatch"
    /\ args.action = "restore"
    /\ IF ~args.backup_path
       THEN /\ exitCode' = 1
            /\ UNCHANGED <<db, opOutcome>>
       ELSE /\ db' = IF backupFile # <<>> THEN backupFile[1] ELSE db
            /\ opOutcome' = Returned("restore_database")
            /\ UNCHANGED exitCode
    /\ pc' = "finally"
    /\ UNCHANGED <<files, conn, foreign_keys, args, runs, lastRun, prevRun, appliedUnits,
                   exportFile, exportedFrom, lastImport, backupFile, invocations>>

\* the branch of export: export_data, or os.makedirs raises before its try
DispatchExport ==
    /\ pc = "dispatch"
    /\ args.action = "export"
    /\ \E outcome \in {"written", "failed", "raised"} :
          /\ \E doc \in ExportDocs(db) :
                /\ exportFile' = IF outcome = "written" THEN doc ELSE exportFile
                /\ exportedFrom' = IF outcome = "written" THEN db ELSE exportedFrom
          /\ exitCode' = IF outcome = "raised" THEN 1 ELSE 0
          /\ opOutcome' = IF outcome = "raised" THEN Raised("export_data")
                          ELSE Returned("export_data")
    /\ pc' = "finally"
    /\ UNCHANGED <<files, db, conn, foreign_keys, args, runs, lastRun, prevRun,
                   appliedUnits, lastImport, backupFile, invocations>>

\* the branch of import: sys.exit(1) without an import path, else import_data
DispatchImport ==
    /\ pc = "dispatch"
    /\ args.action = "import"
    /\ IF ~args.import_path
       THEN /\ exitCode' = 1
            /\ UNCHANGED <<db, foreign_keys, lastImport, opOutcome>>
       ELSE /\ \E doc \in MainDocs \cup {exportFile} : DoImportData(doc)
            /\ opOutcome' = Returned("import_data")
            /\ UNCHANGED exitCode
    /\ pc' = "finally"
    /\ UNCHANGED <<files, conn, args, runs, lastRun, prevRun, appliedUnits, exportFile,
                   exportedFrom, backupFile, invocations>>

\* the branch of info: show_database_info only reads
DispatchInfo ==
    /\ pc = "dispatch"
    /\ args.action = "info"
    /\ opOutcome' = Returned("show_database_info")
    /\ pc' = "finally"
    /\ UNCHANGED <<files, db, conn, foreign_keys, args, exitCode, runs, lastRun, prevRun,
                   appliedUnits, exportFile, exportedFrom, lastImport, backupFile, invocations>>

\* a main() whose close() is the last statement of the try block
MainFinallyOnSuccess ==
    /\ pc = "finally"
    /\ conn' = IF conn = "open" /\ exitCode = 0 THEN "closed" ELSE conn
    /\ pc' = "exited"
    /\ UNCHANGED <<files, db, foreign_keys, args, exitCode, runs, lastRun, prevRun,
                   appliedUnits, exportFile, exportedFrom, lastImport, backupFile, invocations, opOutcome>>

\* finally: migrator.close(), which closes self.conn if there is one
MainFinally ==
    /\ pc = "finally"
    /\ conn' = IF conn = "open" THEN "closed" ELSE conn
    /\ pc' = "exited"
    /\ UNCHANGED <<files, db, foreign_keys, args, exitCode, runs, lastRun, prevRun,
                   appliedUnits, exportFile, exportedFrom, lastImport, backupFile, invocations, opOutcome>>

\* the process is gone; the tool can be started again
MainExit ==
    /\ pc = "exited"
    /\ pc' = "idle"
    /\ UNCHANGED <<files, db, conn, foreign_keys, args, exitCode, runs, lastRun, prevRun,
                   appliedUnits, exportFile, exportedFrom, lastImport, backupFile, invocations, opOutcome>>

MainInit ==
    /\ files \in MainDirectories
    /\ db = EmptyDb
    /\ conn = "none"
    /\ foreign_keys = FALSE
    /\ pc = "idle"
    /\ args = NoArgs
    /\ exitCode = 0
    /\ runs = 0
    /\ lastRun = NoRun
    /\ prevRun = NoRun
    /\ appliedUnits = {}
    /\ exportFile = NoDoc
    /\ exportedFrom = EmptyDb
    /\ lastImport = NoImport
    /\ backupFile = <<>>
    /\ invocations = 0
    /\ opOutcome = NoOutcome

MainNext ==
    \/ MainStart
    \/ MainConnect
    \/ DispatchMigrate
    \/ DispatchBackup
    \/ DispatchRestore
    \/ DispatchExport
    \/ DispatchImport
    \/ DispatchInfo
    \/ MainFinally
    \/ MainExit

SpecMain == MainInit /\ [][MainNext]_vars

\* ================================================================== claims
\* the migration files of a directory
SqlFiles(dir) == {f \in DOMAIN dir : EndsWithSql(f)}

\* the changes the script of f makes when it runs to its end
ChangesOf(f, body) == {<<f, i>> : i \in {j \in DOMAIN body : body[j] = "ddl"}}

\* C1: a run in which no unit fails executes exactly the units whose version
\* is absent from the ledger the run started with, each once, also when that
\* ledger is not contiguous
C1_ExecutesExactlyUnledgered ==
    (lastRun.n > 0 /\ lastRun.failed = <<>>) =>
        /\ Range(lastRun.executed) =
              {f \in SqlFiles(lastRun.files) : Version(f) \notin LedgerOf(lastRun.dbStart)}
        /\ Len(lastRun.executed) = Cardinality(Range(lastRun.executed))

\* a successful run that started with 002 ledgered and 001 not, and executed 001 only
C1_Witness ==
    /\ lastRun.n > 0 /\ lastRun.result = TRUE
    /\ {F001a, F002b} \subseteq DOMAIN lastRun.files
    /\ Version(F002b) \in LedgerOf(lastRun.dbStart)
    /\ Version(F001a) \notin LedgerOf(lastRun.dbStart)
    /\ lastRun.executed = <<F001a>>

\* C2: after a run in which a unit failed, the database is as it was just
\* before that unit started: none of its changes, no ledger entry of it
C2_FailedUnitLeavesNoTrace ==
    (lastRun.n > 0 /\ lastRun.failed # <<>>) => db = lastRun.dbBeforeFailed

\* C3: a version is in the ledger if and only if a unit of that version has
\* been applied to its end and committed
C3_LedgerIffApplied ==
    \A f \in SqlFileNames :
        (Version(f) \in LedgerOf(db)) <=> (\E g \in appliedUnits : Version(g) = Version(f))

\* C4: a failed run returns False, has executed no unit after the failing one,
\* and leaves the changes and the ledger entries of the units it applied
\* before it in the database
C4_FailureStopsRun ==
    (lastRun.n > 0 /\ lastRun.failed # <<>>) =>
        /\ lastRun.result = FALSE
        /\ lastRun.executed[Len(lastRun.executed)] = lastRun.failed[1]
        /\ \A f \in Range(lastRun.executed) : ~StrLess(lastRun.failed[1], f)
        /\ \A i \in 1..(Len(lastRun.executed) - 1) :
              LET g == lastRun.executed[i]
                  body == lastRun.files[g]
              IN /\ ChangesOf(g, body) \subseteq db.changes
                 /\ "ledger" \in Range(body) => LedgerRow(g) \in db.rows["migrations"]

\* a run that applied a unit, failed at the next and left a later one untouched
C4_Witness ==
    /\ lastRun.n > 0 /\ lastRun.failed # <<>>
    /\ Len(lastRun.executed) = 2
    /\ "ledger" \in Range(lastRun.files[lastRun.executed[1]])
    /\ \E f \in SqlFiles(lastRun.files) :
          /\ StrLess(lastRun.failed[1], f)
          /\ Version(f) \notin LedgerOf(lastRun.dbStart)

\* C5: the units executed in one run are executed in ascending order of their
\* file names, whatever the order of the directory listing
C5_AscendingOrder ==
    \A i, j \in DOMAIN lastRun.executed :
        i < j => StrLess(lastRun.executed[i], lastRun.executed[j])

\* 001, 002 and 010 listed in another order and executed as 001, 002, 010
C5_Witness ==
    /\ ~lastRun.listedInOrder
    /\ lastRun.executed = <<F001a, F002b, F010c>>

\* C6: a run that follows a successful run over the same files executes no
\* unit, leaves the database and the ledger as they were and succeeds
C6_SecondRunIsNoOp ==
    (lastRun.n >= 2 /\ prevRun.result = TRUE /\ prevRun.files = lastRun.files) =>
        /\ lastRun.executed = <<>>
        /\ db = lastRun.dbStart
        /\ lastRun.result = TRUE

\* the tables other than the ledger hold no row
UserTablesEmpty(d) == \A t \in TableNames \ {"migrations"} : d.rows[t] = {}

\* the keys of a document row that are columns of table t of database d
ValidKeys(row, t, d) == {k \in DOMAIN row : t \in d.tables /\ k \in Columns(t)}

\* the writes a document asks for, in document order: for each row with a
\* valid key, the row's pairs under its valid keys
RECURSIVE ExpectedWrites(_, _, _, _)
ExpectedWrites(entries, d, k, i) ==
    IF k > Len(entries) THEN <<>>
    ELSE IF i > Len(entries[k].rows) THEN ExpectedWrites(entries, d, k + 1, 1)
    ELSE LET row == entries[k].rows[i]
             keys == ValidKeys(row, entries[k].table, d)
             rest == ExpectedWrites(entries, d, k, i + 1)
         IN IF keys = {} THEN rest
            ELSE <<[table |-> entries[k].table, data |-> [c \in keys |-> row[c]]]>> \o rest

\* is s the beginning of t
IsPrefix(s, t) == Len(s) <= Len(t) /\ SubSeq(t, 1, Len(s)) = s

\* C7: an import that does not reach its commit returns False and leaves the
\* database as it was: no row it wrote remains, in any table
C7_FailedImportRolledBack ==
    (lastImport.n > 0 /\ "commit" \notin Range(lastImport.events)) =>
        /\ lastImport.result = FALSE
        /\ db = lastImport.dbStart

\* an import that wrote every row of its first table and failed in its second
C7_Witness ==
    /\ lastImport.n > 0 /\ lastImport.result = FALSE
    /\ "fk_off" \in Range(lastImport.events)
    /\ Len(lastImport.doc.entries) = 2
    /\ lastImport.doc.entries[2].rows # <<>>
    /\ lastImport.writes # <<>>
    /\ Len(lastImport.writes) = Len(lastImport.doc.entries[1].rows)
    /\ \A w \in Range(lastImport.writes) : w.table = lastImport.doc.entries[1].table

\* the last import was a successful import of the last export into a database
\* of the same tables with no rows
IsRoundTrip ==
    /\ lastImport.n > 0 /\ lastImport.result = TRUE
    /\ exportFile # NoDoc /\ lastImport.doc = exportFile
    /\ UserTablesEmpty(lastImport.dbStart)
    /\ lastImport.dbStart.tables = exportedFrom.tables

\* C8 as stated: after export and import into an empty migrated database each
\* table holds the rows of the exported database, equal in every column
C8_RoundTripExact ==
    IsRoundTrip => \A t \in TableNames : db.rows[t] = exportedFrom.rows[t]

\* C8 as amended: each table holds the rows of the exported database, equal in
\* every column except that a binary value has become the text b'...'
C8_RoundTripUpToBlobText ==
    IsRoundTrip =>
        \A t \in TableNames :
            db.rows[t] =
                {[c \in DOMAIN r |->
                    IF r[c].kind = "blob" THEN Text(<<98, 39>> \o r[c].val \o <<39>>) ELSE r[c]] :
                    r \in exportedFrom.rows[t]}

\* a round trip of a database with rows in two tables, one value binary
C8_Witness ==
    /\ IsRoundTrip
    /\ [id |-> Int2, v |-> BlobA] \in exportedFrom.rows["items"]
    /\ [id |-> Int1, v |-> TextA] \in exportedFrom.rows["items"]
    /\ exportedFrom.rows["stock"] # {}

\* C9: the writes of an import are, in document order, the rows' pairs under
\* the keys that are columns of the table; rows without such a key are not
\* written; keys that are no column make no import fail
C9_DriftTolerance ==
    (lastImport.n > 0 /\ lastImport.doc.wellFormed) =>
        LET expected == ExpectedWrites(lastImport.doc.entries, lastImport.dbStart, 1, 1)
        IN /\ IsPrefix(lastImport.writes, expected)
           /\ lastImport.result = TRUE => lastImport.writes = expected
           /\ lastImport.result = FALSE =>
                 \/ \E k \in DOMAIN lastImport.doc.entries :
                       TableInfoRaises(lastImport.doc.entries[k].table)
                 \/ /\ Len(lastImport.writes) < Len(expected)
                    /\ LET w == expected[Len(lastImport.writes) + 1]
                       IN \/ \E c \in DOMAIN w.data : w.data[c].kind = "list"
                          \/ PrimaryKey(w.table) \notin DOMAIN w.data
                          \/ w.data[PrimaryKey(w.table)] = Null

\* a successful import of a row with a column the table no longer has and of
\* a row with no current column: one write, without the extra column
C9_Witness ==
    /\ lastImport.n > 0 /\ lastImport.result = TRUE
    /\ lastImport.doc.entries =
          <<[table |-> "items", rows |-> <<[id |-> Int2, v |-> TextA, old |-> TextA], [old |-> TextA]>>]>>
    /\ lastImport.writes = <<[table |-> "items", data |-> [id |-> Int2, v |-> TextA]]>>
    /\ [id |-> Int2, v |-> TextA] \in db.rows["items"]

\* C10: when the process has exited, whatever the action and its outcome, a
\* connection that was opened has been closed
C10_ConnectionClosedAtExit ==
    pc \in {"exited", "idle"} => conn # "open"

\* an import without --import-path: exit status 1, the connection closed
C10_Witness ==
    /\ pc = "exited"
    /\ args.action = "import" /\ ~args.import_path
    /\ exitCode = 1
    /\ conn = "closed"

\* C11: whatever fails inside an operation that main() calls, the operation
\* returns to its caller: no exception leaves it
C11_NoExceptionCrossesBoundary ==
    opOutcome.outcome # "raised"

\* restore without --backup-path, or import without --import-path
MissingOption ==
    \/ args.action = "restore" /\ ~args.backup_path
    \/ args.action = "import" /\ ~args.import_path

\* C12: a process started as restore without a backup path or as import
\* without an import path changes neither the database nor the backup file,
\* imports nothing, calls no operation and exits with status 1
C12_MissingOptionChangesNothing ==
    /\ [](pc = "exited" /\ MissingOption => exitCode = 1)
    /\ [][(MissingOption /\ pc # "idle") =>
             /\ db' = db
             /\ backupFile' = backupFile
             /\ lastImport' = lastImport
             /\ opOutcome' = opOutcome
             /\ pc = "dispatch" => exitCode' = 1]_vars

\* a restore without a backup path has exited with status 1 although a backup
\* that differs from the database exists
C12_Witness ==
    /\ pc = "exited"
    /\ args.action = "restore" /\ ~args.backup_path
    /\ conn = "closed"
    /\ exitCode = 1
    /\ backupFile # <<>>
    /\ backupFile[1] # db

\* the last run follows a run that failed at a unit whose script has been
\* repaired since; every script records its own version and none fails now
IsResumedRun ==
    /\ lastRun.n >= 2
    /\ prevRun.failed # <<>>
    /\ DOMAIN lastRun.files = DOMAIN prevRun.files
    /\ \A f \in DOMAIN lastRun.files :
          lastRun.files[f] = IF f = prevRun.failed[1] THEN FixedBody(prevRun.files[f])
                             ELSE prevRun.files[f]
    /\ \A f \in SqlFiles(lastRun.files) :
          "ledger" \in Range(lastRun.files[f]) /\ "fail" \notin Range(lastRun.files[f])

\* C13: the run after a failed run, the failure repaired, skips the units the
\* failed run applied, executes the failed unit and the later unledgered ones
\* and succeeds, so that every unit is applied and ledgered
C13_ResumeAfterFailure ==
    IsResumedRun =>
        /\ lastRun.result = TRUE
        /\ prevRun.failed[1] \in Range(lastRun.executed)
        /\ \A f \in Range(prevRun.executed) \ Range(prevRun.failed) :
              f \notin Range(lastRun.executed)
        /\ \A f \in SqlFiles(lastRun.files) :
              /\ Version(f) \in LedgerOf(db)
              /\ ChangesOf(f, lastRun.files[f]) \subseteq db.changes

\* C17: a run that starts without a ledger table reads an empty ledger and
\* executes every migration file in order, up to the first that fails
C17_NoLedgerTableMeansNothingApplied ==
    (lastRun.n > 0 /\ "migrations" \notin lastRun.dbStart.tables) =>
        /\ lastRun.applied = {}
        /\ C5_AscendingOrder
        /\ Range(lastRun.executed) =
              {f \in SqlFiles(lastRun.files) :
                  lastRun.failed = <<>> \/ ~StrLess(lastRun.failed[1], f)}

\* a run on a database without ledger table that executed all three files
C17_Witness ==
    /\ lastRun.n > 0
    /\ lastRun.dbStart.tables = {}
    /\ lastRun.result = TRUE
    /\ lastRun.executed = <<F001a, F002b, F010c>>

\* C18: a run that finds no migration file executes nothing, leaves the
\* database and the ledger as they were and returns False, each time
C18_NoFilesIsSoftFailure ==
    (lastRun.n > 0 /\ SqlFiles(lastRun.files) = {}) =>
        /\ lastRun.executed = <<>>
        /\ lastRun.result = FALSE
        /\ lastRun.failed = <<>>
        /\ db = lastRun.dbStart

\* two runs in a row on a directory that holds only a file that is no .sql file
C18_Witness ==
    /\ lastRun.n = 2
    /\ DOMAIN lastRun.files = {FNotes}
    /\ DOMAIN prevRun.files = {FNotes}
    /\ prevRun.result = FALSE /\ lastRun.result = FALSE
    /\ db = prevRun.dbStart

\* C14: no unit is executed while its version is in the ledger, also when the
\* ledger entry was written earlier in the same run by a unit of the same version
C14_NeverExecutedWhileLedgered ==
    lastRun.whileLedgered = {}

\* C15: export_data and import_data never add, update or delete a ledger entry
C15_PorterKeepsLedger ==
    [][db'.rows["migrations"] = db.rows["migrations"]]_vars

\* C16: a successful import disables enforcement, writes, re-enables, commits,
\* in this order, and enforcement is in effect when it returns
C16_ImportOrderAndEnforcement ==
    (lastImport.n > 0 /\ lastImport.result) =>
        /\ Len(lastImport.events) >= 3
        /\ lastImport.events[1] = "fk_off"
        /\ \A i \in 2..(Len(lastImport.events) - 2) : lastImport.events[i] = "write"
        /\ lastImport.events[Len(lastImport.events) - 1] = "fk_on"
        /\ lastImport.events[Len(lastImport.events)] = "commit"
        /\ foreign_keys = TRUE

\* C19: foreign-key enforcement is on again after import_data returned on its
\* failure path
C19_EnforcementOnAfterFailedImport ==
    (lastImport.n > 0 /\ ~lastImport.result) => foreign_keys = TRUE

\* the document gives rows for the key t
HasRowsFor(doc, t) ==
    \E k \in DOMAIN doc.entries : doc.entries[k].table = t /\ doc.entries[k].rows # <<>>

\* C20: import_data leaves a table without rows in the document as it was, a
\* key that names no table causes no write and no error, and a row whose key
\* no imported row has stays as it was
C20_ImportFrame ==
    lastImport.n > 0 =>
        /\ \A t \in TableNames :
              ~HasRowsFor(lastImport.doc, t) => db.rows[t] = lastImport.dbStart.rows[t]
        /\ ( /\ lastImport.doc.wellFormed
             /\ \A k \in DOMAIN lastImport.doc.entries :
                   lastImport.doc.entries[k].table \notin lastImport.dbStart.tables )
           => (lastImport.result /\ lastImport.writes = <<>>)
        /\ \A t \in TableNames : \A r \in lastImport.dbStart.rows[t] :
              (\A i \in DOMAIN lastImport.writes :
                   \/ lastImport.writes[i].table # t
                   \/ lastImport.writes[i].data[PrimaryKey(t)] # r[PrimaryKey(t)])
              => r \in db.rows[t]

====
